---- MODULE Spec2Model ----
(***************************************************************************)
(* Model of app2.py, the Streamlit "Interactieve Meetkaart" script.        *)
(*                                                                         *)
(* The script is rerun top to bottom on every user interaction.  Between   *)
(* reruns only the two st.cache_data memo tables and the selectbox widget  *)
(* value survive.  One action of the model is one complete script run.     *)
(*                                                                         *)
(* Number representation.  Floats are fixed point integers wrapped in an   *)
(* option: <<>> is NaN / NaT / None, <<n>> is a present value.             *)
(*   Ruw.Res.      tenths            (0.5 is <<5>>, 50 is <<500>>)         *)
(*   coordinates   1e-4 degrees      (52.0907 is 520907)                   *)
(***************************************************************************)
EXTENDS Integers, Sequences, FiniteSets, TLC

VARIABLES
    file,          \* rows of the spreadsheet on disk (never written)
    townCoords,    \* the module level dict TOWN_COORDS
    loadCache,     \* memo table of load_data for bestandspad: None or Some(df)
    prepCache,     \* memo table of prepare_data: jaar -> None or Some(df_jaar)
    rng,           \* state of the generator made by the last prepare_data body
    widget,        \* selectbox widget value of the session: None or Some(jaar)
    df,            \* script global df after the last run
    jaren,         \* script global jaren
    gekozen_jaar,  \* script global gekozen_jaar
    df_jaar,       \* script global df_jaar
    shown_count,   \* the number written by st.write: None or Some(n)
    sample_df,     \* script global sample_df
    markers,       \* CircleMarkers added to the cluster of this run
    status,        \* "idle", "rendered" (run reached the end) or "error"
    requested,     \* history: prepare_data keys requested since the caches were last empty
    lastRun,       \* history: what the last script run did
    firstReturn,   \* history: first value prepare_data ever returned per jaar
    waarde,        \* input of the classifier (SpecKleur)
    kleur          \* output of the classifier (SpecKleur)

vars == <<file, townCoords, loadCache, prepCache, rng, widget, df, jaren,
          gekozen_jaar, df_jaar, shown_count, sample_df, markers, status,
          requested, lastRun, firstReturn, waarde, kleur>>

appVars == <<file, townCoords, loadCache, prepCache, rng, widget, df, jaren,
             gekozen_jaar, df_jaar, shown_count, sample_df, markers, status,
             requested, lastRun, firstReturn>>

-----------------------------------------------------------------------------
(* Options and floats *)

None == <<>>

Some(x) == <<x>>

NaN == <<>>

Tenths(n) == n * 10

\* float comparison a < b: false as soon as one side is NaN
Lt(a, b) == a # NaN /\ b # NaN /\ a[1] < b[1]

\* pandas ==: NaN and None equal nothing
EqJaar(a, b) == a # NaN /\ b # NaN /\ a = b

Min2(a, b) == IF a < b THEN a ELSE b

RECURSIVE GCD(_, _)
GCD(a, b) == IF b = 0 THEN a ELSE GCD(b, a % b)

-----------------------------------------------------------------------------
(* Bounds of the model *)

\* longest spreadsheet enumerated row by row
MaxRows == 2

\* length of the tiled spreadsheets, chosen above the sample cap
BulkRows == 2001

\* classifier inputs, in tenths: -MinWaarde .. MaxWaarde
MinWaarde == 30

MaxWaarde == 520

-----------------------------------------------------------------------------
(* Program constants *)

SampleCap == 2000

PrepSeed == 42

SampleSeed == 42

TOWN_COORDS ==
    ("Utrecht" :> <<520907, 51214>>) @@ ("Amersfoort" :> <<521561, 53878>>) @@
    ("Veenendaal" :> <<520286, 55589>>) @@ ("Lelystad" :> <<525185, 54714>>) @@
    ("Almere" :> <<523508, 52647>>) @@ ("Dronten" :> <<525250, 57181>>) @@
    ("Arnhem" :> <<519851, 58987>>) @@ ("Nijmegen" :> <<518126, 58372>>) @@
    ("Apeldoorn" :> <<522112, 59699>>) @@ ("Zwolle" :> <<525168, 60830>>) @@
    ("Enschede" :> <<522215, 68937>>) @@ ("Deventer" :> <<522550, 61639>>) @@
    ("Leeuwarden" :> <<532012, 57999>>) @@ ("Sneek" :> <<530323, 56589>>) @@
    ("Drachten" :> <<531123, 60989>>)

-----------------------------------------------------------------------------
(* 2. Hulpfuncties: the colour classifier *)

\* variant: <= in place of <, so 1, 10 and 50 fall in the lower bucket
kleur_boundary_in_lower_bucket(w) ==
    IF ~Lt(Some(Tenths(1)), w) /\ w # NaN THEN "green"
    ELSE IF ~Lt(Some(Tenths(10)), w) /\ w # NaN THEN "yellow"
    ELSE IF ~Lt(Some(Tenths(50)), w) /\ w # NaN THEN "orange"
    ELSE "red"

\* lines 45-54
kleur_op_basis_van_meetwaarde(w) ==
    IF Lt(w, Some(Tenths(1))) THEN "green"
    ELSE IF Lt(w, Some(Tenths(10))) THEN "yellow"
    ELSE IF Lt(w, Some(Tenths(50))) THEN "orange"
    ELSE "red"

-----------------------------------------------------------------------------
(* 1. Data inladen *)

IsLeap(y) == (y % 4 = 0 /\ y % 100 # 0) \/ y % 400 = 0

DaysIn(y, m) ==
    IF m = 2 THEN (IF IsLeap(y) THEN 29 ELSE 28)
    ELSE IF m \in {4, 6, 9, 11} THEN 30 ELSE 31

\* variant: no coercion, an unparseable cell is passed through
to_datetime_keeps_bad_cells(cell) == Some(cell)

\* pd.to_datetime(..., errors="coerce") on one cell <<y, m, d>>:
\* a calendar date parses, anything else becomes NaT
to_datetime(cell) ==
    IF cell[2] \in 1..12 /\ cell[3] \in 1..DaysIn(cell[1], cell[2])
    THEN Some(cell) ELSE NaN

\* .dt.year: NaN for NaT
dt_year(d) == IF d = NaN THEN NaN ELSE Some(d[1][1])

\* body of load_data: read_excel, then the Datum and Jaar columns
load_data(rows) ==
    [i \in 1..Len(rows) |->
        LET d == to_datetime(rows[i].Datum) IN
        [index |-> i - 1,
         Datum |-> d,
         Woonplaats |-> rows[i].Woonplaats,
         RuwRes |-> rows[i].RuwRes,
         Jaar |-> dt_year(d)]]

-----------------------------------------------------------------------------
(* 3. Voorbereiding van data per jaar *)

\* np.random.default_rng(seed): a generator is its seed and the number of
\* values drawn from it so far
default_rng(seed) == [seed |-> seed, pos |-> 0]

\* the k-th next value of g.normal(0, sigma): a fixed function of the
\* generator state, within three sigma (sigma in 1e-4 degrees)
normal(g, k, sigma) ==
    LET raw == ((g.seed + g.pos + k) * 7919 + 104729) % 65537
    IN  (raw % (6 * sigma + 1)) - 3 * sigma

\* variant: one generator seeded once and shared by all invocations
rng_carried_over(prev) == IF prev = None THEN default_rng(PrepSeed) ELSE prev[1]

\* line 66: the generator the body of prepare_data draws from; prev is the
\* generator the previous invocation left behind (None before the first)
rng_at_entry(prev) == default_rng(PrepSeed)

\* df[df["Jaar"] == jaar]
filter_jaar(d, jaar) ==
    LET Keep(r) == EqJaar(r.Jaar, jaar) IN SelectSeq(d, Keep)

\* df_jaar[df_jaar["Woonplaats"].isin(TOWN_COORDS.keys())]
filter_town(d, coords) ==
    LET Keep(r) == r.Woonplaats \in DOMAIN coords IN SelectSeq(d, Keep)

\* lines 67-72: one (lat, lon) per row, two draws per row in row order
jitter(d, coords, g) ==
    [i \in 1..Len(d) |->
        LET base == coords[d[i].Woonplaats] IN
        <<base[1] + normal(g, 2 * (i - 1), 40),
          base[2] + normal(g, 2 * (i - 1) + 1, 60)>>]

\* zip(*lat_lon): the tuple of lats and the tuple of lons, nothing for []
zip_star(lat_lon) ==
    IF lat_lon = <<>> THEN <<>>
    ELSE <<[i \in 1..Len(lat_lon) |-> lat_lon[i][1]],
           [i \in 1..Len(lat_lon) |-> lat_lon[i][2]]>>

\* df_jaar["lat"], df_jaar["lon"] = cols
with_lat_lon(d, cols) ==
    [i \in 1..Len(d) |->
        [index |-> d[i].index, Datum |-> d[i].Datum,
         Woonplaats |-> d[i].Woonplaats, RuwRes |-> d[i].RuwRes,
         Jaar |-> d[i].Jaar, lat |-> cols[1][i], lon |-> cols[2][i]]]

\* variant: no copy, the filter and the new columns land in the argument
arg_after_in_place(d, jaar, coords, prev) ==
    LET sel == filter_town(filter_jaar(d, jaar), coords)
        cols == zip_star(jitter(sel, coords, rng_at_entry(prev)))
    IN  IF Len(cols) = 2 THEN with_lat_lon(sel, cols) ELSE sel

\* the frame the caller passed, as the call leaves it: prepare_data works on
\* the copy made in line 63
arg_after(d, jaar, coords, prev) == d

\* body of prepare_data.  raised: the unpacking in line 73 found no two
\* values (ValueError); ret: the returned frame; arg: the frame passed in,
\* after the call; rng: the generator after the call
prepare_data(d, jaar, coords, prev) ==
    LET sel == filter_town(filter_jaar(d, jaar), coords)
        g == rng_at_entry(prev)
        cols == zip_star(jitter(sel, coords, g))
        after == [g EXCEPT !.pos = g.pos + 2 * Len(sel)]
    IN  IF Len(cols) # 2
        THEN [raised |-> TRUE, ret |-> <<>>,
              arg |-> arg_after(d, jaar, coords, prev), rng |-> after]
        ELSE [raised |-> FALSE, ret |-> with_lat_lon(sel, cols),
              arg |-> arg_after(d, jaar, coords, prev), rng |-> after]

-----------------------------------------------------------------------------
(* 4. Gebruikersinterface *)

JaarColumn(d) == [i \in 1..Len(d) |-> d[i].Jaar]

\* Series.dropna(): the present values, unwrapped
dropna(s) ==
    LET Present(x) == x # NaN
        kept == SelectSeq(s, Present)
    IN  [i \in 1..Len(kept) |-> kept[i][1]]

\* Series.unique(): each value once, in order of first appearance
unique(s) ==
    LET vals == {s[i] : i \in 1..Len(s)}
        first(v) == CHOOSE i \in 1..Len(s) :
                        s[i] = v /\ \A j \in 1..(i - 1) : s[j] # v
    IN  [k \in 1..Cardinality(vals) |->
            CHOOSE v \in vals :
                Cardinality({u \in vals : first(u) < first(v)}) = k - 1]

RECURSIVE Insert(_, _)
Insert(x, s) ==
    IF s = <<>> THEN <<x>>
    ELSE IF x <= Head(s) THEN <<x>> \o s
    ELSE <<Head(s)>> \o Insert(x, Tail(s))

\* variant: sorted(..., reverse=True)
RECURSIVE sorted_descending(_)
sorted_descending(s) ==
    IF s = <<>> THEN <<>>
    ELSE LET rest == sorted_descending(Tail(s))
             bigger == {i \in 1..Len(rest) : rest[i] >= Head(s)}
         IN  SubSeq(rest, 1, Cardinality(bigger)) \o <<Head(s)>>
             \o SubSeq(rest, Cardinality(bigger) + 1, Len(rest))

\* sorted(): ascending
RECURSIVE sorted(_)
sorted(s) == IF s = <<>> THEN <<>> ELSE Insert(Head(s), sorted(Tail(s)))

\* line 82
jaren_of(d) == sorted(unique(dropna(JaarColumn(d))))

\* st.selectbox(label, options, index): the widget value of the session when
\* the user picked one, else options[index]; None when there are no options
selectbox(options, index, w) ==
    IF options = <<>> THEN None
    ELSE IF w = None THEN Some(options[index + 1])
    ELSE w

-----------------------------------------------------------------------------
(* 5. Kaart genereren *)

\* variant: no cap
sample_size_uncapped(d) == Len(d)

\* line 97
sample_size(d) == Min2(SampleCap, Len(d))

\* variant: replace=True, positions may repeat
sample_positions_with_replacement(len, n, seed) ==
    [i \in 1..n |-> ((seed * i) % len) + 1]

\* the positions DataFrame.sample(n, random_state=seed) draws, without
\* replacement: the first n entries of a permutation of 1..len fixed by the
\* seed and len
sample_positions(len, n, seed) ==
    LET a == CHOOSE c \in (len \div 2 + 1)..(len + 1) : GCD(c, len) = 1
    IN  [i \in 1..n |-> ((a * (i - 1) + seed) % len) + 1]

\* line 98
sample(d, n, seed) ==
    LET pos == sample_positions(Len(d), n, seed) IN [i \in 1..n |-> d[pos[i]]]

\* lines 101-116: the marker of one sampled row
CircleMarker(row) ==
    LET k == kleur_op_basis_van_meetwaarde(row.RuwRes) IN
    [location |-> <<row.lat, row.lon>>,
     radius |-> 6,
     color |-> k,
     fill_color |-> k,
     popup |-> [Woonplaats |-> row.Woonplaats, Datum |-> row.Datum[1],
                RuwRes |-> row.RuwRes]]

-----------------------------------------------------------------------------
(* The inputs: spreadsheets *)

\* date cells: two calendar dates and one that is none (30 February)
DatumCells == {<<2020, 6, 15>>, <<2021, 2, 28>>, <<2021, 2, 30>>}

RowDom ==
    [Datum : DatumCells, Woonplaats : {"Utrecht", "Mars"},
     RuwRes : {Some(5), Some(500)}]

SmallFiles == UNION {[1..n -> RowDom] : n \in 0..MaxRows}

\* three rows for 2020, two in Utrecht and one in Mars
ScenarioFile ==
    <<[Datum |-> <<2020, 6, 15>>, Woonplaats |-> "Utrecht", RuwRes |-> Some(5)],
      [Datum |-> <<2020, 3, 1>>, Woonplaats |-> "Utrecht", RuwRes |-> Some(150)],
      [Datum |-> <<2020, 12, 31>>, Woonplaats |-> "Mars", RuwRes |-> Some(500)]>>

Tile(base, n) == [i \in 1..n |-> base[((i - 1) % Len(base)) + 1]]

BulkBases ==
    {<<[Datum |-> <<2021, 2, 28>>, Woonplaats |-> "Drachten", RuwRes |-> Some(5)],
       [Datum |-> <<2021, 7, 1>>, Woonplaats |-> "Amersfoort", RuwRes |-> Some(100)]>>,
     <<[Datum |-> <<2020, 6, 15>>, Woonplaats |-> "Zwolle", RuwRes |-> Some(99)],
       [Datum |-> <<2020, 6, 15>>, Woonplaats |-> "Mars", RuwRes |-> Some(5)],
       [Datum |-> <<2021, 2, 30>>, Woonplaats |-> "Sneek", RuwRes |-> NaN],
       [Datum |-> <<2021, 7, 1>>, Woonplaats |-> "Nijmegen", RuwRes |-> NaN]>>}

BulkFiles == {Tile(b, BulkRows) : b \in BulkBases}

Files == SmallFiles \cup {ScenarioFile} \cup BulkFiles

\* the values jaar can take in a prepare_data call
Keys == {None} \cup {Some(y) : y \in {2020, 2021}}

NoRun ==
    [loadSeen |-> FALSE, read |-> FALSE, key |-> None, keySeen |-> FALSE,
     body |-> FALSE, again |-> FALSE]

-----------------------------------------------------------------------------
(* The script *)

Init ==
    /\ file \in Files
    /\ townCoords = TOWN_COORDS
    /\ loadCache = None
    /\ prepCache = [k \in Keys |-> None]
    /\ rng = None
    /\ widget = None
    /\ df = <<>>
    /\ jaren = <<>>
    /\ gekozen_jaar = None
    /\ df_jaar = <<>>
    /\ shown_count = None
    /\ sample_df = <<>>
    /\ markers = <<>>
    /\ status = "idle"
    /\ requested = [load |-> FALSE, prep |-> {}]
    /\ lastRun = NoRun
    /\ firstReturn = [k \in Keys |-> None]
    /\ waarde = NaN
    /\ kleur = "none"

\* one run of the script, lines 11-138, with widget value w.  Each conjunct
\* is one statement; a later statement reads what an earlier one assigned.
RunScript(w) ==
    /\ widget' = w
    \* line 30: load_data(bestandspad), memoized
    /\ loadCache' = IF loadCache # None THEN loadCache
                    ELSE Some(load_data(file))
    \* lines 82-83
    /\ jaren' = jaren_of(loadCache'[1])
    /\ gekozen_jaar' = selectbox(jaren', Len(jaren') - 1, w)
    \* line 86: prepare_data(df, gekozen_jaar), memoized; a raised exception
    \* is not stored and ends the run
    /\ IF prepCache[gekozen_jaar'] # None
       THEN /\ df_jaar' = prepCache[gekozen_jaar'][1]
            /\ df' = loadCache'[1]
            /\ status' = "rendered"
            /\ UNCHANGED <<prepCache, rng>>
       ELSE LET p == prepare_data(loadCache'[1], gekozen_jaar', townCoords, rng)
            IN  /\ df_jaar' = p.ret
                /\ df' = p.arg
                /\ rng' = Some(p.rng)
                /\ status' = IF p.raised THEN "error" ELSE "rendered"
                /\ prepCache' = IF p.raised THEN prepCache
                                ELSE [prepCache EXCEPT ![gekozen_jaar'] = Some(df_jaar')]
    \* line 88
    /\ shown_count' = IF status' = "error" THEN None ELSE Some(Len(df_jaar'))
    \* lines 97-116
    /\ sample_df' = IF status' = "error" THEN <<>>
                    ELSE sample(df_jaar', sample_size(df_jaar'), SampleSeed)
    /\ markers' = [i \in 1..Len(sample_df') |-> CircleMarker(sample_df'[i])]
    \* history
    /\ requested' = [load |-> TRUE, prep |-> requested.prep \cup {gekozen_jaar'}]
    /\ lastRun' = [loadSeen |-> requested.load,
                   read |-> loadCache = None,
                   key |-> gekozen_jaar',
                   keySeen |-> gekozen_jaar' \in requested.prep,
                   body |-> prepCache[gekozen_jaar'] = None,
                   again |-> /\ prepCache[gekozen_jaar'] = None
                             /\ status' = "rendered"
                             /\ firstReturn[gekozen_jaar'] # None]
    /\ firstReturn' = IF status' = "error" \/ firstReturn[gekozen_jaar'] # None
                      THEN firstReturn
                      ELSE [firstReturn EXCEPT ![gekozen_jaar'] = Some(df_jaar')]
    /\ UNCHANGED <<file, townCoords, waarde, kleur>>

\* a browser session opens the page: the selectbox shows its default
OpenSession == RunScript(None)

\* the user picks another year in the selectbox
SelectYear ==
    /\ status # "idle"
    /\ \E i \in 1..Len(jaren) :
          /\ Some(jaren[i]) # gekozen_jaar
          /\ RunScript(Some(jaren[i]))

\* the page is rerun with the widgets as they are (map interaction, "Rerun")
Rerun ==
    /\ status # "idle"
    /\ RunScript(widget)

\* "Clear cache": both st.cache_data tables are emptied
ClearCache ==
    /\ loadCache # None
    /\ loadCache' = None
    /\ prepCache' = [k \in Keys |-> None]
    /\ requested' = [load |-> FALSE, prep |-> {}]
    /\ UNCHANGED <<file, townCoords, rng, widget, df, jaren, gekozen_jaar,
                   df_jaar, shown_count, sample_df, markers, status, lastRun,
                   firstReturn, waarde, kleur>>

Next == OpenSession \/ SelectYear \/ Rerun \/ ClearCache

Spec == Init /\ [][Next]_vars

-----------------------------------------------------------------------------
(* The classifier on its own *)

Waarden == {NaN} \cup {Some(v) : v \in (0 - MinWaarde)..MaxWaarde}

InitKleur ==
    /\ file = <<>>
    /\ townCoords = TOWN_COORDS
    /\ loadCache = None
    /\ prepCache = [k \in Keys |-> None]
    /\ rng = None
    /\ widget = None
    /\ df = <<>>
    /\ jaren = <<>>
    /\ gekozen_jaar = None
    /\ df_jaar = <<>>
    /\ shown_count = None
    /\ sample_df = <<>>
    /\ markers = <<>>
    /\ status = "idle"
    /\ requested = [load |-> FALSE, prep |-> {}]
    /\ lastRun = NoRun
    /\ firstReturn = [k \in Keys |-> None]
    /\ waarde \in Waarden
    /\ kleur = "none"

Classify ==
    /\ kleur = "none"
    /\ kleur' = kleur_op_basis_van_meetwaarde(waarde)
    /\ UNCHANGED <<waarde>>
    /\ UNCHANGED appVars

NextKleur == Classify

SpecKleur == InitKleur /\ [][NextKleur]_vars

-----------------------------------------------------------------------------
(* Properties *)

Columns == {"index", "Datum", "Woonplaats", "RuwRes", "Jaar"}

\* a date cell that is no calendar date
Unparseable(cell) ==
    ~(cell[2] >= 1 /\ cell[2] <= 12 /\ cell[3] >= 1
      /\ cell[3] <= DaysIn(cell[1], cell[2]))

\* positions in df of the rows of year jaar in a town of the table
Qualifying(jaar) ==
    {i \in 1..Len(df) :
        /\ jaar # None
        /\ df[i].Jaar = jaar
        /\ df[i].Woonplaats \in DOMAIN TOWN_COORDS}

Positions(d) == {d[k].index + 1 : k \in 1..Len(d)}

C2_PrepareOutputExact ==
    status # "idle" =>
        /\ status = "rendered"
        /\ Positions(df_jaar) = Qualifying(gekozen_jaar)
        /\ Len(df_jaar) = Cardinality(Qualifying(gekozen_jaar))

\* what does hold of prepare_data: whenever it returns, the frame is exact
PreparedExactWhenReturned ==
    status = "rendered" =>
        /\ Positions(df_jaar) = Qualifying(gekozen_jaar)
        /\ Len(df_jaar) = Cardinality(Qualifying(gekozen_jaar))
        /\ Len(df_jaar) >= 1

\* C3: when no row qualifies for the selected year, the run completes: the
\* count 0 is shown and the map has no markers.
C3_EmptyYearRenders ==
    (status # "idle" /\ Qualifying(gekozen_jaar) = {}) =>
        /\ status = "rendered"
        /\ shown_count = Some(0)
        /\ markers = <<>>

\* C4: every value prepare_data returns for a year, at any point of any
\* sequence of runs, is the value it returned for that year the first time:
\* same rows, same order, same lat and lon.
C4_PrepareDeterministic ==
    /\ status = "rendered" => firstReturn[gekozen_jaar] = Some(df_jaar)
    /\ \A k \in Keys : prepCache[k] # None => prepCache[k] = firstReturn[k]

C4_Witness ==
    /\ lastRun.again
    /\ Len(df_jaar) >= 2
    /\ \E k \in Keys : k # gekozen_jaar /\ firstReturn[k] # None

\* C5: the number of rows sampled is the smaller of 2000 and the number of
\* prepared rows; when at most 2000 rows are prepared each one is sampled.
C5_SampleSize ==
    status = "rendered" =>
        /\ Len(sample_df) <= SampleCap
        /\ Len(sample_df) <= Len(df_jaar)
        /\ Len(sample_df) = SampleCap \/ Len(sample_df) = Len(df_jaar)
        /\ Len(markers) = Len(sample_df)
        /\ Len(df_jaar) <= SampleCap => Positions(sample_df) = Positions(df_jaar)

C5_Witness ==
    /\ status = "rendered"
    /\ Len(df_jaar) > SampleCap
    /\ Len(sample_df) = SampleCap

\* C6: a run that calls load_data after an earlier call does not read the
\* file, and a run that requests a prepare_data key requested before does
\* not execute the body.
C6_MemoizedOnce ==
    /\ lastRun.loadSeen => ~lastRun.read
    /\ lastRun.keySeen => ~lastRun.body

\* what does hold of the two memo tables
MemoizedWhenReturned ==
    /\ lastRun.loadSeen => ~lastRun.read
    /\ (lastRun.keySeen /\ status = "rendered") => ~lastRun.body

\* C7: a row with an unparseable date is kept by the load with a missing
\* date and a missing year, adds no year to the dropdown and is in no
\* prepared frame.
C7_BadDateRows ==
    status # "idle" =>
        /\ Len(df) = Len(file)
        /\ \A i \in 1..Len(file) :
              Unparseable(file[i].Datum) =>
                  /\ df[i].index = i - 1
                  /\ df[i].Datum = NaN
                  /\ df[i].Jaar = NaN
        /\ \A j \in 1..Len(jaren) :
              \E i \in 1..Len(file) :
                  ~Unparseable(file[i].Datum) /\ file[i].Datum[1] = jaren[j]
        /\ \A i \in Positions(df_jaar) : ~Unparseable(file[i].Datum)
        /\ \A k \in Keys :
              prepCache[k] # None =>
                  \A i \in Positions(prepCache[k][1]) : ~Unparseable(file[i].Datum)

C7_Witness ==
    /\ status = "rendered"
    /\ \E i \in 1..Len(file) :
          /\ Unparseable(file[i].Datum)
          /\ gekozen_jaar = Some(file[i].Datum[1])

\* C8: jaren holds the years of the dataset that are not missing, each once,
\* ascending, and without a choice by the user the selected year is the
\* largest.
C8_YearDropdown ==
    status # "idle" =>
        /\ \A i \in 1..Len(jaren) : \A j \in 1..Len(jaren) :
              i < j => jaren[i] < jaren[j]
        /\ {jaren[i] : i \in 1..Len(jaren)}
              = {df[i].Jaar[1] : i \in {r \in 1..Len(df) : df[r].Jaar # NaN}}
        /\ (widget = None /\ jaren # <<>>) =>
              /\ gekozen_jaar # None
              /\ \A i \in 1..Len(jaren) : jaren[i] <= gekozen_jaar[1]

C8_Witness ==
    /\ status # "idle"
    /\ widget = None
    /\ Len(jaren) = 2
    /\ df[1].Jaar = Some(jaren[2])
    /\ gekozen_jaar = Some(jaren[2])

\* C9: there is one marker per sampled row; the sampled rows are distinct
\* rows of the prepared frame; each marker lies at its row's lat and lon and
\* has the colour of its row's Ruw.Res. as colour and fill colour.
C9_MarkersMatchSample ==
    status = "rendered" =>
        /\ Len(markers) = Len(sample_df)
        /\ Len(markers) = sample_size(df_jaar)
        /\ Cardinality(Positions(sample_df)) = Len(sample_df)
        /\ {sample_df[i] : i \in 1..Len(sample_df)}
              \subseteq {df_jaar[k] : k \in 1..Len(df_jaar)}
        /\ \A i \in 1..Len(markers) :
              /\ markers[i].location = <<sample_df[i].lat, sample_df[i].lon>>
              /\ markers[i].color = kleur_op_basis_van_meetwaarde(sample_df[i].RuwRes)
              /\ markers[i].fill_color = markers[i].color

C9_Witness ==
    /\ status = "rendered"
    /\ Len(markers) >= 2
    /\ markers[1].color # markers[2].color
    /\ markers[1].location # markers[2].location

\* C10: after any sequence of runs the script's dataset has the rows and the
\* columns it had when loaded, the memoized dataset equals it, and
\* TOWN_COORDS is as defined.
C10_SharedDataUnchanged ==
    status # "idle" =>
        /\ Len(df) = Len(file)
        /\ \A i \in 1..Len(df) :
              /\ DOMAIN df[i] = Columns
              /\ df[i].index = i - 1
              /\ df[i].Woonplaats = file[i].Woonplaats
              /\ df[i].RuwRes = file[i].RuwRes
        /\ loadCache # None => loadCache[1] = df
        /\ townCoords = TOWN_COORDS

C10_Witness ==
    /\ status = "rendered"
    /\ lastRun.body
    /\ Len(df_jaar) >= 1
    /\ Len(df_jaar) < Len(df)

====
